---- MODULE Spec2Model ----
(***************************************************************************)
(* ANF-AIOps: the FastAPI facades over the Azure NetApp Files management   *)
(* SDK (four copies of the application) and the thin HTTP client.          *)
(*                                                                         *)
(* One server process runs one copy (variant).  Every endpoint is an       *)
(* `async def` whose body makes only synchronous SDK calls, so a handler   *)
(* occupies the event loop from its first line to its return; the only     *)
(* place where it stays there for an unbounded time is poller.result().    *)
(***************************************************************************)
EXTENDS Integers, Sequences, FiniteSets, TLC

\* ------------------------------------------------------------------ bounds
MaxRequests == 3      \* requests sent to the server in one behaviour
MaxClientCalls == 2   \* calls made through the thin client in one behaviour
MaxRedirects == 1     \* redirects the model lets one call follow

\* --------------------------------------------------------------- constants
Tasks == {"t1", "t2"}                 \* concurrent request tasks
Variants == {"mcp_server", "anf_aiops_complete", "anf_aiops_full", "mcp-server"}
AccountNames == {"a1", "a2"}
None == <<>>                          \* Optional[...] absent
Some(v) == <<v>>                      \* Optional[...] present

API_KEY == "changeme"

ServiceLevels == {"Ultra", "Premium", "Standard", "StandardZRS"}

Range(s) == {s[i] : i \in 1..Len(s)}

VARIABLES
  variant,      \* which copy of the application this process runs
  task,         \* per task: pc, the request it carries, the response it got
  loop,         \* the task occupying the event loop thread, or "none"
  accounts,     \* collaborator: accounts of the resource group, in order
  pools,        \* collaborator: the capacity pools, in order
  lro,          \* per task: state of the poller its handler holds
  calls,        \* per task: SDK calls its current request has made
  lastCreated,  \* the resource the most recently completed handler created
  sent,         \* requests sent so far
  client        \* the thin client: pc, call, HTTP response, outcome

vars == <<variant, task, loop, accounts, pools, lro, calls, lastCreated, sent, client>>
serverVars == <<variant, task, loop, accounts, pools, lro, calls, lastCreated, sent>>

\* ---------------------------------------------------------------- requests
MutatingOps == {"create_account", "delete_account", "create_pool", "update_pool", "delete_pool"}
ListOps == {"list_accounts", "list_pools"}
AccountOps == {"list_accounts", "create_account", "delete_account"}
PoolOps == {"list_pools", "create_pool", "update_pool", "delete_pool"}

\* The routes each copy registers (routers present under src/).
Routes(v) ==
  CASE v = "mcp_server"         -> {"health"} \cup AccountOps \cup PoolOps
    [] v = "anf_aiops_complete" -> {"health"} \cup PoolOps
    [] v = "anf_aiops_full"     -> {"health"} \cup AccountOps
    [] v = "mcp-server"         -> {"health", "list_accounts", "create_account"}

Req(o, k, w, a, sz, sl) ==
  [op |-> o, key |-> k, wait |-> w, account |-> a, pool |-> "p1",
   size_tb |-> sz, service_level |-> sl]

NoReq == Req("none", None, FALSE, "a1", None, None)

\* The requests a caller sends: every route with every kind of key; the
\* parameters vary only where the handler reads them.
Requests(v) ==
  LET R == Routes(v) IN
     {Req("health", k, FALSE, "a1", None, None) : k \in {None, Some(API_KEY)}}
  \cup {Req(o, k, FALSE, "a1", Some(1), Some("Premium")) :
          o \in R \ {"health"}, k \in {None, Some("badkey")}}
  \cup {Req("list_accounts", Some(API_KEY), FALSE, "a1", None, None) : o \in R \cap {"list_accounts"}}
  \cup {Req("list_pools", Some(API_KEY), FALSE, a, None, None) :
          a \in IF "list_pools" \in R THEN AccountNames ELSE {}}
  \cup {Req(o, Some(API_KEY), w, a, None, None) :
          o \in R \cap {"create_account"}, w \in BOOLEAN, a \in AccountNames}
  \cup {Req(o, Some(API_KEY), w, "a1", None, None) :
          o \in R \cap {"delete_account", "delete_pool"}, w \in BOOLEAN}
  \cup {Req("create_pool", Some(API_KEY), w, x[1], Some(x[2]), Some(x[3])) :
          w \in IF "create_pool" \in R THEN BOOLEAN ELSE {},
          x \in {<<"a1", 1, "Premium">>, <<"a2", 1, "Ultra">>,
                 <<"a1", 0, "Premium">>, <<"a1", 1, "Bogus">>}}
  \cup {Req("update_pool", Some(API_KEY), w, "a1", sz, sl) :
          w \in IF "update_pool" \in R THEN BOOLEAN ELSE {},
          sz \in {None, Some(0), Some(2)}, sl \in {None, Some(""), Some("Ultra")}}

\* --------------------------------------------------------------- responses
Resp(st, b, d, it, af) ==
  [status |-> st, body |-> b, detail |-> d, items |-> it, after |-> af]

NoResp == Resp(0, "none", "", <<>>, None)

\* SDK calls of one request: begin_* calls, list calls, poller.result() calls,
\* the keys of the body handed to begin_*, and the collaborator's answer to it
\* (creating: what the create the handler is blocked on brings about)
NoCalls == [mutating |-> 0, list |-> 0, result |-> 0, body |-> {}, ack |-> "none",
            creating |-> None]

\* HttpResponseError raised by the SDK
SyncError == [status_code |-> 409, message |-> "Conflict"]
LroError == [status_code |-> 503, message |-> "OperationFailed"]
ListError == [status_code |-> 403, message |-> "AuthorizationFailed"]

\* ------------------------------------------------- collaborator (stub store)
\* begin_create_or_update is an upsert keyed by the resource name: the record
\* exists from the moment the submission is accepted.
\* Resources are records; an account has no pool name.
Account(a) == [account |-> a, pool |-> ""]
Pool(a, p) == [account |-> a, pool |-> p]
Upsert(store, id) == IF id \in Range(store) THEN store ELSE Append(store, id)
Remove(store, id) == SelectSeq(store, LAMBDA x : x # id)
\* pools.list(resource_group, account): the pools of one account, in order
PoolsOf(store, a) == SelectSeq(store, LAMBDA x : x.account = a)
Count(s, x) == Cardinality({i \in 1..Len(s) : s[i] = x})

\* ------------------------------------------------------------ auth and DTOs
\* verify_key: 0 when the key is accepted, else the HTTPException status
verify_key(x_api_key) == IF x_api_key # API_KEY THEN 401 ELSE 0

\* x_api_key: str = Header(...) is a required parameter of the dependency:
\* when the header is missing the framework never calls verify_key and
\* answers 422; when it is present verify_key runs before the endpoint's own
\* parameters are validated.
Depends_verify_key(header) ==
  IF header = None THEN 422 ELSE verify_key(header[1])

\* PoolBody (src/mcp_server): typed fields, no constraints
PoolBody(r) == r.size_tb # None /\ r.service_level # None

\* PoolSpec (anf_aiops_complete): size_tb gt 0, service_level matches the regex
PoolSpec(r) ==
  /\ r.size_tb # None /\ r.service_level # None
  /\ r.size_tb[1] > 0
  /\ r.service_level[1] \in ServiceLevels

\* Validation of the endpoint's own parameters (422 on failure)
ParamsValid(v, r) ==
  IF r.op = "create_pool"
    THEN IF v = "anf_aiops_complete" THEN PoolSpec(r) ELSE PoolBody(r)
    ELSE TRUE

\* What the framework does with a request before the handler body runs:
\* 0 = the handler is called, else the status it answers with.
Admission(v, r) ==
  IF r.op = "health" THEN 0
  ELSE IF Depends_verify_key(r.key) = 401 THEN 401
  ELSE IF Depends_verify_key(r.key) # 0 \/ ~ParamsValid(v, r) THEN 422
  ELSE 0

\* sdk_error: HttpResponseError -> HTTPException(status_code, detail)
sdk_error(err) == [status |-> err.status_code, detail |-> err.message]

\* An exception no handler catches: the framework's 500
Unhandled(err) == [status |-> 500, detail |-> "Internal Server Error"]

\* The copies whose handlers wrap the SDK calls in try/except HttpResponseError
Catches(v) == v # "mcp-server"

Raise(v, err) == IF Catches(v) THEN sdk_error(err) ELSE Unhandled(err)

\* -------------------------------------------------------------- thin client
\* HTTP statuses a server answers with, and response texts (resp.text)
Statuses == {200, 204, 304, 307, 401, 404, 500}
Texts == {"", "{}", "[]"}
\* requests.request follows these when the response names a Location
RedirectStatuses == {301, 302, 303, 307, 308}

NoOutcome == [kind |-> "none", status |-> 0, text |-> "", value |-> "none"]

NoCall(n) ==
  [pc |-> "idle", n |-> n, method |-> "", path |-> "", http |-> 0,
   status |-> 0, text |-> "", outcome |-> NoOutcome]

\* ApiError(f"{resp.status_code} {resp.text}")
ApiError(status_code, text) ==
  [kind |-> "ApiError", status |-> status_code, text |-> text, value |-> "none"]

\* resp.json(): the decoded payload, or JSONDecodeError when the text is no JSON
json(status_code, text) ==
  CASE text = "{}" -> [kind |-> "json", status |-> status_code, text |-> text, value |-> "dict"]
    [] text = "[]" -> [kind |-> "json", status |-> status_code, text |-> text, value |-> "list"]
    [] OTHER -> [kind |-> "JSONDecodeError", status |-> status_code, text |-> text,
                 value |-> "none"]

\* `if resp.status_code >= 400: raise ApiError(...)`, else `return resp.json()`
request_outcome(status_code, text) ==
  IF status_code >= 400 THEN ApiError(status_code, text) ELSE json(status_code, text)

\* ------------------------------------------------------------------- state
Init ==
  /\ variant \in Variants
  /\ task = [t \in Tasks |-> [pc |-> "idle", req |-> NoReq, resp |-> NoResp]]
  /\ loop = "none"
  /\ accounts = <<>>
  /\ pools = <<>>
  /\ lro = [t \in Tasks |-> "none"]
  /\ calls = [t \in Tasks |-> NoCalls]
  /\ lastCreated = None
  /\ sent = 0
  /\ client = NoCall(0)

\* A caller sends a request; it waits for the event loop.
Send(t) ==
  /\ task[t].pc = "idle"
  /\ sent < MaxRequests
  /\ \E r \in Requests(variant) :
       task' = [task EXCEPT ![t] = [pc |-> "received", req |-> r, resp |-> NoResp]]
  /\ sent' = sent + 1
  /\ UNCHANGED <<variant, loop, accounts, pools, lro, calls, lastCreated, client>>

\* The caller takes the response; the task slot is free again.
Collect(t) ==
  /\ task[t].pc = "done"
  /\ task' = [task EXCEPT ![t] = [pc |-> "idle", req |-> NoReq, resp |-> NoResp]]
  /\ calls' = [calls EXCEPT ![t] = NoCalls]
  /\ lro' = [lro EXCEPT ![t] = "none"]
  /\ UNCHANGED <<variant, loop, accounts, pools, lastCreated, sent, client>>

\* The handler of task t can be entered: the request is waiting, the event
\* loop is free, the route is o and the framework admits the request.
Ready(t, o) ==
  /\ task[t].pc = "received"
  /\ loop = "none"
  /\ task[t].req.op = o
  /\ Admission(variant, task[t].req) = 0

\* The handler returns (or raises): the response goes out, the loop is free.
Respond(t, resp, created) ==
  /\ task' = [task EXCEPT ![t].pc = "done", ![t].resp = resp]
  /\ loop' = "none"
  /\ lastCreated' = created

\* The handler is inside poller.result(): it keeps the event loop thread.
Suspend(t) ==
  /\ task' = [task EXCEPT ![t].pc = "waiting"]
  /\ loop' = t
  /\ UNCHANGED lastCreated

ErrorResp(e) == Resp(e.status, "error", e.detail, <<>>, None)

\* The framework refuses the request before any handler code runs.
Refuse(t) ==
  /\ task[t].pc = "received"
  /\ loop = "none"
  /\ Admission(variant, task[t].req) # 0
  /\ LET st == Admission(variant, task[t].req) IN
       Respond(t, Resp(st, IF st = 401 THEN "error" ELSE "validation",
                       IF st = 401 THEN "Invalid API Key" ELSE "field required",
                       <<>>, None), None)
  /\ UNCHANGED <<variant, accounts, pools, lro, calls, sent, client>>

health(t) ==
  /\ Ready(t, "health")
  /\ Respond(t, Resp(200, "status_ok", "", <<>>, None), None)
  /\ UNCHANGED <<variant, accounts, pools, lro, calls, sent, client>>

\* --------------------------------------------------------------- handlers
\* x.as_dict(): the resource as the JSON object the endpoint returns
as_dict(x) == IF x.pool = "" THEN [name |-> x.account]
                             ELSE [name |-> x.pool, account |-> x.account]

\* mutant: the comprehension stops one element short
as_dicts_short(iterable) == [i \in 1..(Len(iterable) - 1) |-> as_dict(iterable[i])]

\* [x.as_dict() for x in iterable]
as_dicts(iterable) == [i \in 1..Len(iterable) |-> as_dict(iterable[i])]

\* create_account of src/mcp-server/app.py takes (account_name, location):
\* it has no wait flag and always calls poller.result().
HasWaitFlag(v) == v # "mcp-server"
\* status_code=202 on the routers' mutating routes; the single-file app
\* declares none, so its POST answers 200.
OkStatus(v) == IF v = "mcp-server" THEN 200 ELSE 202

\* What a create brings about: the resource, and whether the collaborator
\* already held one of that name when the create was submitted.
Created(k, a, p) ==
  Some([kind |-> k, account |-> a, pool |-> p,
        existed |-> IF k = "account" THEN Account(a) \in Range(accounts)
                                     ELSE Pool(a, p) \in Range(pools)])

\* mutant: the wait flag is ignored and the handler always blocks
Accepted_always_blocks(t, w, patch, created) ==
  /\ lro' = [lro EXCEPT ![t] = "InProgress"]
  /\ calls' = [calls EXCEPT ![t].mutating = @ + 1, ![t].body = patch,
                            ![t].ack = "accepted", ![t].result = @ + 1,
                            ![t].creating = created]
  /\ Suspend(t)

\* `if wait: return poller.result()...; return {"operation": poller.polling_url()}`
\* after begin_* was accepted.  `w` is the handler's wait flag, `patch` the
\* keys of the body handed to the SDK, `created` what a create brings about.
Accepted(t, w, patch, created) ==
  /\ lro' = [lro EXCEPT ![t] = "InProgress"]
  /\ IF w
       THEN /\ calls' = [calls EXCEPT ![t].mutating = @ + 1, ![t].body = patch,
                                      ![t].ack = "accepted", ![t].result = @ + 1,
                                      ![t].creating = created]
            /\ Suspend(t)
       ELSE /\ calls' = [calls EXCEPT ![t].mutating = @ + 1, ![t].body = patch,
                                      ![t].ack = "accepted"]
            /\ Respond(t, Resp(OkStatus(variant), "operation", "", <<>>, None), created)

\* mutant: a rejected submission is issued a second time before giving up
Rejected_retries(t, patch) ==
  /\ calls' = [calls EXCEPT ![t].mutating = @ + 2, ![t].body = patch,
                            ![t].ack = "rejected"]
  /\ Respond(t, ErrorResp(Raise(variant, SyncError)), None)
  /\ UNCHANGED lro

\* begin_* raised HttpResponseError: `except HttpResponseError as err: raise sdk_error(err)`
\* where the handler has one.
Rejected(t, patch) ==
  /\ calls' = [calls EXCEPT ![t].mutating = @ + 1, ![t].body = patch,
                            ![t].ack = "rejected"]
  /\ Respond(t, ErrorResp(Raise(variant, SyncError)), None)
  /\ UNCHANGED lro

\* The try block of a mutating handler: one begin_* call, accepted or not.
Submit(t, ok, w, patch, created) ==
  IF ok THEN Accepted(t, w, patch, created) ELSE Rejected(t, patch)

list_accounts(t) ==
  /\ Ready(t, "list_accounts")
  /\ variant # "mcp-server"
  /\ calls' = [calls EXCEPT ![t].list = @ + 1]
  /\ \E ok \in BOOLEAN :
       Respond(t, IF ok THEN Resp(200, "list", "", as_dicts(accounts), lastCreated)
                        ELSE ErrorResp(sdk_error(ListError)), None)
  /\ UNCHANGED <<variant, accounts, pools, lro, sent, client>>

create_account(t) ==
  /\ Ready(t, "create_account")
  /\ variant # "mcp-server"
  /\ LET r == task[t].req IN
     \E ok \in BOOLEAN :
       /\ accounts' = IF ok THEN Upsert(accounts, Account(r.account)) ELSE accounts
       /\ Submit(t, ok, r.wait, {"location", "properties"}, Created("account", r.account, ""))
  /\ UNCHANGED <<variant, pools, sent, client>>

delete_account(t) ==
  /\ Ready(t, "delete_account")
  /\ LET r == task[t].req IN
     \E ok \in BOOLEAN :
       /\ accounts' = IF ok THEN Remove(accounts, Account(r.account)) ELSE accounts
       /\ Submit(t, ok, r.wait, {}, None)
  /\ UNCHANGED <<variant, pools, sent, client>>

list_pools(t) ==
  /\ Ready(t, "list_pools")
  /\ calls' = [calls EXCEPT ![t].list = @ + 1]
  /\ \E ok \in BOOLEAN :
       Respond(t, IF ok THEN Resp(200, "list", "",
                                  as_dicts(PoolsOf(pools, task[t].req.account)), lastCreated)
                        ELSE ErrorResp(sdk_error(ListError)), None)
  /\ UNCHANGED <<variant, accounts, pools, lro, sent, client>>

create_pool(t) ==
  /\ Ready(t, "create_pool")
  /\ LET r == task[t].req IN
     \E ok \in BOOLEAN :
       /\ pools' = IF ok THEN Upsert(pools, Pool(r.account, r.pool)) ELSE pools
       /\ Submit(t, ok, r.wait, {"location", "sku", "size"}, Created("pool", r.account, r.pool))
  /\ UNCHANGED <<variant, accounts, sent, client>>

\* mutant: the emptiness check tests truthiness of one field only
NothingToUpdate_one_field(new_size_tb, service_level) ==
  new_size_tb = None /\ service_level # None

\* `if new_size_tb is None and service_level is None: raise HTTPException(400)`
NothingToUpdate(new_size_tb, service_level) ==
  new_size_tb = None /\ service_level = None

\* body = {}; if new_size_tb: body["size"] = ...; if service_level: body["sku"] = ...
PatchBody(new_size_tb, service_level) ==
     (IF new_size_tb # None /\ new_size_tb[1] # 0 THEN {"size"} ELSE {})
  \cup (IF service_level # None /\ service_level[1] # "" THEN {"sku"} ELSE {})

update_pool(t) ==
  /\ Ready(t, "update_pool")
  /\ LET r == task[t].req IN
     IF NothingToUpdate(r.size_tb, r.service_level)
       THEN /\ Respond(t, Resp(400, "error", "Specify new_size_tb or service_level",
                               <<>>, None), None)
            /\ UNCHANGED <<pools, lro, calls>>
       ELSE \E ok \in BOOLEAN :
              /\ pools' = IF ok THEN Upsert(pools, Pool(r.account, r.pool)) ELSE pools
              /\ Submit(t, ok, r.wait, PatchBody(r.size_tb, r.service_level), None)
  /\ UNCHANGED <<variant, accounts, sent, client>>

delete_pool(t) ==
  /\ Ready(t, "delete_pool")
  /\ LET r == task[t].req IN
     \E ok \in BOOLEAN :
       /\ pools' = IF ok THEN Remove(pools, Pool(r.account, r.pool)) ELSE pools
       /\ Submit(t, ok, r.wait, {}, None)
  /\ UNCHANGED <<variant, accounts, sent, client>>

\* src/mcp-server/app.py: no try/except, no wait flag
app_list_accounts(t) ==
  /\ Ready(t, "list_accounts")
  /\ variant = "mcp-server"
  /\ calls' = [calls EXCEPT ![t].list = @ + 1]
  /\ \E ok \in BOOLEAN :
       Respond(t, IF ok THEN Resp(200, "list", "", as_dicts(accounts), lastCreated)
                        ELSE ErrorResp(Unhandled(ListError)), None)
  /\ UNCHANGED <<variant, accounts, pools, lro, sent, client>>

app_create_account(t) ==
  /\ Ready(t, "create_account")
  /\ variant = "mcp-server"
  /\ LET r == task[t].req IN
     \E ok \in BOOLEAN :
       /\ accounts' = IF ok THEN Upsert(accounts, Account(r.account)) ELSE accounts
       /\ Submit(t, ok, TRUE, {"location"}, Created("account", r.account, ""))
  /\ UNCHANGED <<variant, pools, sent, client>>

\* The collaborator's long-running operation reaches a terminal state.
LroComplete(t) ==
  /\ lro[t] = "InProgress"
  /\ \E s \in {"Succeeded", "Failed"} : lro' = [lro EXCEPT ![t] = s]
  /\ UNCHANGED <<variant, task, loop, accounts, pools, calls, lastCreated, sent, client>>

\* mutant: the blocking branch answers with the operation reference too
WaitBody_operation(o) == "operation"

\* What the wait=true branch returns once poller.result() has returned
WaitBody(o) == IF o \in {"delete_account", "delete_pool"} THEN "deleted" ELSE "resource"

\* poller.result() returns or raises: the handler resumes and answers.
poller_result(t) ==
  /\ task[t].pc = "waiting"
  /\ lro[t] \in {"Succeeded", "Failed"}
  /\ LET r == task[t].req IN
     IF lro[t] = "Succeeded"
       THEN Respond(t, Resp(OkStatus(variant), WaitBody(r.op), "", <<>>, None),
                    calls[t].creating)
       ELSE Respond(t, ErrorResp(Raise(variant, LroError)), None)
  /\ UNCHANGED <<variant, accounts, pools, lro, calls, sent, client>>

\* Everything the server can do for the request of task t once it is received
Dispatch(t) ==
  \/ Refuse(t) \/ health(t)
  \/ list_accounts(t) \/ create_account(t) \/ delete_account(t)
  \/ list_pools(t) \/ create_pool(t) \/ update_pool(t) \/ delete_pool(t)
  \/ app_list_accounts(t) \/ app_create_account(t)

Next ==
  \/ \E t \in Tasks : Send(t)
  \/ \E t \in Tasks : Refuse(t)
  \/ \E t \in Tasks : health(t)
  \/ \E t \in Tasks : list_accounts(t)
  \/ \E t \in Tasks : create_account(t)
  \/ \E t \in Tasks : delete_account(t)
  \/ \E t \in Tasks : list_pools(t)
  \/ \E t \in Tasks : create_pool(t)
  \/ \E t \in Tasks : update_pool(t)
  \/ \E t \in Tasks : delete_pool(t)
  \/ \E t \in Tasks : app_list_accounts(t)
  \/ \E t \in Tasks : app_create_account(t)
  \/ \E t \in Tasks : LroComplete(t)
  \/ \E t \in Tasks : poller_result(t)
  \/ \E t \in Tasks : Collect(t)

Spec == Init /\ [][Next]_vars

\* ------------------------------------------------------ thin client actions
\* _request(method, path): requests.request(method, url, ...) goes out
ClientCall(method, path) ==
  /\ client.pc = "idle"
  /\ client.n < MaxClientCalls
  /\ client' = [NoCall(client.n + 1) EXCEPT !.pc = "sent", !.method = method,
                                            !.path = path, !.http = 1]
  /\ UNCHANGED serverVars

AnfMcpClient_list_accounts == ClientCall("GET", "/accounts")

AnfMcpClient_create_account == ClientCall("POST", "/accounts")

\* The server answers a redirect with a Location: requests follows it with
\* another HTTP request (allow_redirects is left at its default).
HttpRedirect ==
  /\ client.pc = "sent"
  /\ client.http <= MaxRedirects
  /\ \E st \in Statuses \cap RedirectStatuses :
       client' = [client EXCEPT !.http = @ + 1]
  /\ UNCHANGED serverVars

\* The final HTTP response reaches _request.
HttpReply ==
  /\ client.pc = "sent"
  /\ \E st \in Statuses, tx \in Texts :
       client' = [client EXCEPT !.pc = "replied", !.status = st, !.text = tx]
  /\ UNCHANGED serverVars

\* _request returns the payload or raises.
AnfMcpClient_request ==
  /\ client.pc = "replied"
  /\ client' = [client EXCEPT !.pc = "returned",
                              !.outcome = request_outcome(client.status, client.text)]
  /\ UNCHANGED serverVars

\* The caller goes on to its next call.
ClientNext ==
  /\ client.pc = "returned"
  /\ client' = NoCall(client.n)
  /\ UNCHANGED serverVars

NextClient ==
  \/ AnfMcpClient_list_accounts
  \/ AnfMcpClient_create_account
  \/ HttpRedirect
  \/ HttpReply
  \/ AnfMcpClient_request
  \/ ClientNext

SpecClient == Init /\ [][NextClient]_vars

\* ================================================================== claims
Done(t) == task[t].pc = "done"
Authorized(t) == task[t].req.key = Some(API_KEY)
IsRequest(t) == task[t].pc # "idle"
ExternalCalls(t) == calls[t].mutating + calls[t].list + calls[t].result
\* the handler of t's request takes the blocking branch
Waits(t) == IF HasWaitFlag(variant) THEN task[t].req.wait ELSE TRUE

\* C1: every request to a non-health route without a correct x-api-key
\* (absent, or present with another value) is answered 401, and no call to
\* the control-plane client is made for it.
C1_BadKeyIs401 ==
  \A t \in Tasks :
    (IsRequest(t) /\ task[t].req.op # "health" /\ ~Authorized(t))
      => /\ ExternalCalls(t) = 0
         /\ Done(t) => task[t].resp.status = 401

\* C2: while one request is suspended in poller.result(), any other request
\* that has been received can still be processed.
C2_SuspensionConfined ==
  \A t, u \in Tasks :
    (t # u /\ task[t].pc = "waiting" /\ task[u].pc = "received")
      => ENABLED Dispatch(u)

\* C3: a pool create whose size is <= 0 or whose service level is not one of
\* Ultra, Premium, Standard, StandardZRS fails with a 4xx status and makes no
\* call to the control-plane client, in every copy of the pools router.
C3_InvalidPoolRejected ==
  \A t \in Tasks :
    LET r == task[t].req IN
    (IsRequest(t) /\ r.op = "create_pool" /\ Authorized(t)
       /\ (r.size_tb[1] <= 0 \/ r.service_level[1] \notin ServiceLevels))
      => /\ ExternalCalls(t) = 0
         /\ Done(t) => task[t].resp.status \in 400..499

\* C4: an authenticated pool update with neither new_size_tb nor
\* service_level is answered 400 and begin_create_or_update is not called.
C4_EmptyUpdateIs400 ==
  \A t \in Tasks :
    LET r == task[t].req IN
    (IsRequest(t) /\ r.op = "update_pool" /\ Authorized(t)
       /\ r.size_tb = None /\ r.service_level = None)
      => /\ ExternalCalls(t) = 0
         /\ Done(t) => task[t].resp.status = 400

C4_Witness ==
  \E t \in Tasks :
    /\ Done(t) /\ task[t].req.op = "update_pool" /\ Authorized(t)
    /\ task[t].req.size_tb = None /\ task[t].req.service_level = None
    /\ task[t].resp.status = 400 /\ calls[t].mutating = 0

C6_WaitReturnsResource ==
  \A t \in Tasks :
    (task[t].req.op \in MutatingOps /\ Waits(t) /\ calls[t].ack = "accepted" /\ Done(t))
      => /\ lro[t] \in {"Succeeded", "Failed"}
         /\ lro[t] = "Succeeded" => task[t].resp.body = "resource"

\* C6 as amended: with wait=true and a succeeding operation the endpoint
\* answers only once the operation is terminal; create and update answer
\* with the final resource representation, delete with {"status": "deleted"},
\* and none of them with an operation reference.
C6_WaitReturnsFinal ==
  \A t \in Tasks :
    (task[t].req.op \in MutatingOps /\ Waits(t) /\ calls[t].ack = "accepted" /\ Done(t))
      => /\ lro[t] \in {"Succeeded", "Failed"}
         /\ calls[t].result = 1
         /\ lro[t] = "Succeeded" =>
              /\ task[t].resp.status \in 200..299
              /\ task[t].resp.body # "operation"
              /\ task[t].resp.body =
                   IF task[t].req.op \in {"delete_account", "delete_pool"}
                     THEN "deleted" ELSE "resource"

C6_Witness ==
  \E t \in Tasks :
    /\ Done(t) /\ task[t].req.op = "delete_pool" /\ task[t].req.wait
    /\ lro[t] = "Succeeded" /\ task[t].resp.body = "deleted"

\* C7: a synchronous rejection by the control-plane client, or with wait=true
\* a failure of the operation at completion, is answered with the remote
\* failure's status code and message, in every mutating endpoint of every copy.
C7_RemoteErrorVerbatim ==
  \A t \in Tasks :
    (Done(t) /\ task[t].req.op \in MutatingOps)
      => /\ calls[t].ack = "rejected" =>
              /\ task[t].resp.status = SyncError.status_code
              /\ task[t].resp.detail = SyncError.message
         /\ (calls[t].ack = "accepted" /\ Waits(t) /\ lro[t] = "Failed") =>
              /\ task[t].resp.status = LroError.status_code
              /\ task[t].resp.detail = LroError.message

\* C8: a mutating request that passes authentication and validation makes
\* exactly one begin_* call, whatever the wait flag and whether that call or
\* the operation fails; the call is never issued again.
C8_OneMutatingCall ==
  \A t \in Tasks :
    LET r == task[t].req IN
    (r.op \in MutatingOps /\ Authorized(t) /\ ParamsValid(variant, r)
       /\ ~(r.op = "update_pool" /\ r.size_tb = None /\ r.service_level = None))
      => /\ calls[t].mutating <= 1
         /\ task[t].pc \in {"waiting", "done"} => calls[t].mutating = 1

C8_Witness ==
  \E t \in Tasks :
    /\ Done(t) /\ task[t].req.op \in MutatingOps /\ task[t].req.wait
    /\ lro[t] = "Failed" /\ calls[t].mutating = 1

\* C9: against the stub collaborator, a list that immediately follows a
\* successful create over the same scope contains the created resource
\* exactly once, also when that name had been created before, with wait=true
\* and with wait=false.
C9_CreateThenList ==
  \A t \in Tasks :
    LET r == task[t].req
        p == task[t].resp
    IN (Done(t) /\ r.op \in ListOps /\ p.status = 200 /\ p.after # None)
         => LET c == p.after[1] IN
            /\ (r.op = "list_accounts" /\ c.kind = "account")
                 => Count(p.items, [name |-> c.account]) = 1
            /\ (r.op = "list_pools" /\ c.kind = "pool" /\ c.account = r.account)
                 => Count(p.items, [name |-> c.pool, account |-> c.account]) = 1

C9_Witness ==
  \E t \in Tasks :
    LET r == task[t].req
        p == task[t].resp
    IN /\ Done(t) /\ r.op = "list_pools" /\ p.status = 200 /\ p.after # None
       /\ p.after[1].kind = "pool" /\ p.after[1].account = r.account
       /\ p.after[1].existed
       /\ Count(p.items, [name |-> p.after[1].pool, account |-> r.account]) = 1

\* C10: one call of the thin client's _request issues exactly one HTTP
\* request, raises ApiError with the response's status and body for every
\* status outside the success range, and returns the decoded JSON only for a
\* status inside it.
C10_ClientContract ==
  client.pc = "returned" =>
    /\ client.http = 1
    /\ client.status \notin 200..299 =>
         /\ client.outcome.kind = "ApiError"
         /\ client.outcome.status = client.status
         /\ client.outcome.text = client.text
    /\ client.outcome.kind = "json" => client.status \in 200..299

\* C11: every pool update that reaches the control-plane client carries a
\* patch body with at least one mutable field (size or sku), for every value
\* of new_size_tb (0 included) and of service_level ("" included):
\* begin_create_or_update is never called with an empty body.
C11_UpdateBodyNotEmpty ==
  \A t \in Tasks :
    (task[t].req.op = "update_pool" /\ calls[t].mutating > 0)
      => calls[t].body \cap {"size", "sku"} # {}

====
